---- MODULE Spec2Model ----
(***************************************************************************)
(* A model of api/tools/python/runner.py: main(raw_code) checks the input, *)
(* decodes it with json.loads, and exec_code splits off an echo target     *)
(* from the last statement, executes the body and echoes the target.       *)
(*                                                                         *)
(* Text is modelled as a sequence of tokens.  A token of the raw input is  *)
(* a whitespace character, a double quote, or a run of other characters;   *)
(* inside a JSON string literal every token is one line of Python source.  *)
(***************************************************************************)
EXTENDS Integers, Sequences, FiniteSets, TLC

\* ---------------------------------------------------------------- bounds
\* the longest program, in source lines
MaxStmts == 3
\* the most whitespace characters in a blank input or around a bare token
MaxPad == 2

\* ---------------------------------------------------------------- values
IntV(n) == [t |-> "int", n |-> n]
NoneV == [t |-> "None", n |-> 0]
\* a name that is not a key of the globals dict
Unbound == [t |-> "unbound", n |-> 0]

Names == {"x", "y"}

\* ---------------------------------------------------------------- exceptions
NoExc == [kind |-> "", msg |-> ""]
Exc(kind, msg) == [kind |-> kind, msg |-> msg]
NameError(id) == Exc("NameError", "name '" \o id \o "' is not defined")
ZeroDivisionError == Exc("ZeroDivisionError", "division by zero")
TypeErrorAdd == Exc("TypeError", "unsupported operand type(s) for +=: 'NoneType' and 'int'")
TypeErrorCompile == Exc("TypeError", "compile() arg 1 must be a string, bytes or AST object")
SyntaxError == Exc("SyntaxError", "invalid syntax")
SyntaxErrorReturn == Exc("SyntaxError", "'return' outside function")
SystemExit == Exc("SystemExit", "")
JSONDecodeError == Exc("JSONDecodeError", "Expecting value")

\* the classes of the model that derive from BaseException but not from Exception
BaseOnly == {"SystemExit"}

\* ---------------------------------------------------------------- syntax trees
\* expressions
Const(v) == [k |-> "Constant", id |-> "", v |-> v]
Name(id) == [k |-> "Name", id |-> id, v |-> NoneV]
\* 1/0
Div0 == [k |-> "Div0", id |-> "", v |-> NoneV]
\* print(1)
Print1 == [k |-> "Print", id |-> "", v |-> NoneV]
\* print(1) or 5
Print1Or5 == [k |-> "PrintOr", id |-> "", v |-> IntV(5)]
NoExpr == [k |-> "", id |-> "", v |-> NoneV]

\* statements; value = NoExpr is an annotation without a value
Expr(e) == [k |-> "Expr", targets |-> <<>>, value |-> e]
Assign(ts, e) == [k |-> "Assign", targets |-> ts, value |-> e]
AnnAssign(t, e) == [k |-> "AnnAssign", targets |-> <<t>>, value |-> e]
AugAssign(t, e) == [k |-> "AugAssign", targets |-> <<t>>, value |-> e]
Pass == [k |-> "Pass", targets |-> <<>>, value |-> NoExpr]
\* for y in range(3): pass
For(t) == [k |-> "For", targets |-> <<t>>, value |-> NoExpr]
Delete(t) == [k |-> "Delete", targets |-> <<t>>, value |-> NoExpr]
\* return, which ast.parse accepts anywhere and compile rejects outside a function
Return == [k |-> "Return", targets |-> <<>>, value |-> NoExpr]
\* raise SystemExit
RaiseExit == [k |-> "Raise", targets |-> <<>>, value |-> NoExpr]

\* ---------------------------------------------------------------- source text
\* The grammar of the model: the source lines that are statements, each with
\* its tree, in the form ast.unparse writes it.
Grammar ==
  [ text : {"1 + 1"}, ast : {Expr(Const(IntV(2)))} ] \cup
  [ text : {"x"}, ast : {Expr(Name("x"))} ] \cup
  [ text : {"y"}, ast : {Expr(Name("y"))} ] \cup
  [ text : {"1 / 0"}, ast : {Expr(Div0)} ] \cup
  [ text : {"print(1)"}, ast : {Expr(Print1)} ] \cup
  [ text : {"x = 5"}, ast : {Assign(<<"x">>, Const(IntV(5)))} ] \cup
  [ text : {"x = None"}, ast : {Assign(<<"x">>, Const(NoneV))} ] \cup
  [ text : {"x = 1 / 0"}, ast : {Assign(<<"x">>, Div0)} ] \cup
  [ text : {"x = print(1) or 5"}, ast : {Assign(<<"x">>, Print1Or5)} ] \cup
  [ text : {"y = x = 5"}, ast : {Assign(<<"y", "x">>, Const(IntV(5)))} ] \cup
  [ text : {"x: int = 5"}, ast : {AnnAssign("x", Const(IntV(5)))} ] \cup
  [ text : {"x: int = print(1) or 5"}, ast : {AnnAssign("x", Print1Or5)} ] \cup
  [ text : {"x: int"}, ast : {AnnAssign("x", NoExpr)} ] \cup
  [ text : {"x += 1"}, ast : {AugAssign("x", Const(IntV(1)))} ] \cup
  [ text : {"x += print(1) or 5"}, ast : {AugAssign("x", Print1Or5)} ] \cup
  [ text : {"pass"}, ast : {Pass} ] \cup
  [ text : {"for y in range(3):\n    pass"}, ast : {For("y")} ] \cup
  [ text : {"del x"}, ast : {Delete("x")} ] \cup
  [ text : {"return"}, ast : {Return} ] \cup
  [ text : {"raise SystemExit"}, ast : {RaiseExit} ]

\* lines the parser accepts in another form than ast.unparse writes
Alias == [ text : {"for y in range(3): pass"}, ast : {For("y")} ]

\* a blank line: no statement
BlankLine == ""
\* a line no statement matches
BadLine == "x ="
\* the tokens of the raw input that are not source lines
WS == " "
Quote == "\""
BareWord == "abc"
Number == "7"

StmtLines == {g.text : g \in Grammar \cup Alias}
Blanks == {BlankLine, WS}

ParseLine(line) == (CHOOSE g \in Grammar \cup Alias : g.text = line).ast
UnparseStmt(s) == (CHOOSE g \in Grammar : g.ast = s).text

RECURSIVE ParseBody(_)
ParseBody(src) ==
  IF src = <<>> THEN <<>>
  ELSE IF Head(src) \in Blanks THEN ParseBody(Tail(src))
  ELSE <<ParseLine(Head(src))>> \o ParseBody(Tail(src))

\* ast.parse(code): the statements of the source, or the exception raised
AstParse(code) ==
  IF code.t # "str" THEN [exc |-> TypeErrorCompile, body |-> <<>>]
  ELSE IF \E i \in 1..Len(code.s) : code.s[i] \notin StmtLines \cup Blanks
    THEN [exc |-> SyntaxError, body |-> <<>>]
  ELSE [exc |-> NoExc, body |-> ParseBody(code.s)]

\* ast.unparse of a body: one line per statement
AstUnparse(body) == [i \in 1..Len(body) |-> UnparseStmt(body[i])]

\* ast.unparse of an expression: the text of the expression statement
UnparseExpr(e) == UnparseStmt(Expr(e))
\* the expression eval() compiles from a text
ParseExpr(text) == ParseLine(text).value
\* ---------------------------------------------------------------- input
NoneRaw == [isNone |-> TRUE, s |-> <<>>]
Raw(s) == [isNone |-> FALSE, s |-> s]

RECURSIVE LStrip(_)
LStrip(s) == IF s # <<>> /\ Head(s) = WS THEN LStrip(Tail(s)) ELSE s
RECURSIVE RStrip(_)
RStrip(s) ==
  IF s # <<>> /\ s[Len(s)] = WS THEN RStrip(SubSeq(s, 1, Len(s) - 1)) ELSE s
\* str.strip()
Strip(s) == RStrip(LStrip(s))

\* the check without strip(): raw_code is None or raw_code == ""
IsBlankInputNoStrip(raw) == raw.isNone \/ raw.s = <<>>

\* raw_code is None or raw_code.strip() == ""
IsBlankInput(raw) == raw.isNone \/ Strip(raw.s) = <<>>

StrV(s) == [t |-> "str", s |-> s]
NumV == [t |-> "int", s |-> <<>>]
NoCode == [t |-> "", s |-> <<>>]

\* json.loads(raw_code): whitespace around the document is skipped; a string
\* literal runs from a quote to the next quote and nothing may follow it; a
\* number is a document too; everything else is no JSON.
JsonLoads(s) ==
  LET t == Strip(s)
      close == {i \in 2..Len(t) : t[i] = Quote}
  IN  IF t = <<>> THEN [exc |-> JSONDecodeError, val |-> NoCode]
      ELSE IF Head(t) = Quote
        THEN IF close = {} \/ (CHOOSE i \in close : \A j \in close : i <= j) # Len(t)
               THEN [exc |-> JSONDecodeError, val |-> NoCode]
               ELSE [exc |-> NoExc, val |-> StrV(SubSeq(t, 2, Len(t) - 1))]
      ELSE IF t = <<Number>> THEN [exc |-> NoExc, val |-> NumV]
      ELSE [exc |-> JSONDecodeError, val |-> NoCode]
\* ---------------------------------------------------------------- evaluation
Digit(d) ==
  CASE d = 0 -> "0" [] d = 1 -> "1" [] d = 2 -> "2" [] d = 3 -> "3" [] d = 4 -> "4"
    [] d = 5 -> "5" [] d = 6 -> "6" [] d = 7 -> "7" [] d = 8 -> "8" [] d = 9 -> "9"
RECURSIVE IntStr(_)
IntStr(n) == IF n < 10 THEN Digit(n) ELSE IntStr(n \div 10) \o Digit(n % 10)
\* str(value)
Str(v) == IF v.t = "int" THEN IntStr(v.n) ELSE "None"
\* what print(value) writes
PrintLine(v) == Str(v) \o "\n"

EmptyGlobals == [id \in Names |-> Unbound]

\* the value of an expression in a namespace, what evaluating it prints, and
\* the exception it raises
Eval(e, g) ==
  CASE e.k = "Constant" -> [val |-> e.v, out |-> <<>>, exc |-> NoExc]
    [] e.k = "Name" ->
         IF g[e.id] = Unbound
           THEN [val |-> NoneV, out |-> <<>>, exc |-> NameError(e.id)]
           ELSE [val |-> g[e.id], out |-> <<>>, exc |-> NoExc]
    [] e.k = "Div0" -> [val |-> NoneV, out |-> <<>>, exc |-> ZeroDivisionError]
    [] e.k = "Print" -> [val |-> NoneV, out |-> <<PrintLine(IntV(1))>>, exc |-> NoExc]
    [] e.k = "PrintOr" -> [val |-> e.v, out |-> <<PrintLine(IntV(1))>>, exc |-> NoExc]

Bind(g, ts, v) == [id \in Names |-> IF \E i \in 1..Len(ts) : ts[i] = id THEN v ELSE g[id]]

\* one statement run by exec: the namespace after it, what it prints, and the
\* exception it raises
RunStmt(s, g) ==
  LET r == Eval(s.value, g)
      t == s.targets[1]
  IN CASE s.k = "Expr" -> [g |-> g, out |-> r.out, exc |-> r.exc]
       [] s.k = "Assign" \/ (s.k = "AnnAssign" /\ s.value # NoExpr) ->
            IF r.exc # NoExc THEN [g |-> g, out |-> r.out, exc |-> r.exc]
            ELSE [g |-> Bind(g, s.targets, r.val), out |-> r.out, exc |-> NoExc]
       [] s.k = "AnnAssign" /\ s.value = NoExpr -> [g |-> g, out |-> <<>>, exc |-> NoExc]
       [] s.k = "AugAssign" ->
            IF g[t] = Unbound THEN [g |-> g, out |-> <<>>, exc |-> NameError(t)]
            ELSE IF r.exc # NoExc THEN [g |-> g, out |-> r.out, exc |-> r.exc]
            ELSE IF g[t].t # "int" \/ r.val.t # "int"
              THEN [g |-> g, out |-> r.out, exc |-> TypeErrorAdd]
            ELSE [g |-> Bind(g, s.targets, IntV(g[t].n + r.val.n)), out |-> r.out,
                  exc |-> NoExc]
       [] s.k = "Pass" -> [g |-> g, out |-> <<>>, exc |-> NoExc]
       [] s.k = "For" -> [g |-> Bind(g, s.targets, IntV(2)), out |-> <<>>, exc |-> NoExc]
       [] s.k = "Delete" ->
            IF g[t] = Unbound THEN [g |-> g, out |-> <<>>, exc |-> NameError(t)]
            ELSE [g |-> Bind(g, s.targets, Unbound), out |-> <<>>, exc |-> NoExc]
       [] s.k = "Raise" -> [g |-> g, out |-> <<>>, exc |-> SystemExit]

\* compile(), the first thing exec does with the text: the exception it raises
Compile(prog) ==
  IF \E i \in 1..Len(prog) : prog[i].k = "Return" THEN SyntaxErrorReturn ELSE NoExc

\* ---------------------------------------------------------------- exec_code
\* last_expression is None or a string
NoneStr == <<>>
Some(text) == <<text>>
\* `if last_expression:`
Truthy(le) == le # NoneStr /\ le[1] # ""

\* pop() for a plain assignment too
PopsAssign(a_last) == a_last.k \in {"Expr", "Assign"}
\* pop() for every statement that gives an echo target
PopsEveryTarget(a_last) == a_last.k \in {"Expr", "Assign", "AnnAssign", "AugAssign"}
\* no pop() at all
PopsNothing(a_last) == FALSE

\* lines 11-12: the last statement is taken out of the body by a.body.pop()
Pops(a_last) == a_last.k = "Expr"

\* a loop taken for a statement with a target
LastExpressionForLoop(a_last) ==
  IF a_last.k = "Expr" THEN Some(UnparseExpr(a_last.value))
  ELSE IF a_last.k = "Assign" THEN Some(UnparseExpr(Name(a_last.targets[1])))
  ELSE IF a_last.k \in {"AnnAssign", "AugAssign", "For"}
    THEN Some(UnparseExpr(Name(a_last.targets[1])))
  ELSE NoneStr
\* an annotation without a value gives no echo target
LastExpressionIfValue(a_last) ==
  IF a_last.k = "Expr" THEN Some(UnparseExpr(a_last.value))
  ELSE IF a_last.k = "Assign" THEN Some(UnparseExpr(Name(a_last.targets[1])))
  ELSE IF a_last.k \in {"AnnAssign", "AugAssign"} /\ a_last.value # NoExpr
    THEN Some(UnparseExpr(Name(a_last.targets[1])))
  ELSE NoneStr

\* lines 11-16: the echo target of the last statement
LastExpression(a_last) ==
  IF a_last.k = "Expr" THEN Some(UnparseExpr(a_last.value))
  ELSE IF a_last.k = "Assign" THEN Some(UnparseExpr(Name(a_last.targets[1])))
  ELSE IF a_last.k \in {"AnnAssign", "AugAssign"}
    THEN Some(UnparseExpr(Name(a_last.targets[1])))
  ELSE NoneStr

\* lines 9-16: the echo target and the body left to execute
SplitLast(a_body) ==
  IF a_body = <<>> THEN [body |-> a_body, last_expression |-> NoneStr]
  ELSE LET a_last == a_body[Len(a_body)]
       IN  [body |-> IF Pops(a_last) THEN SubSeq(a_body, 1, Len(a_body) - 1)
                     ELSE a_body,
            last_expression |-> LastExpression(a_last)]

\* ---------------------------------------------------------------- main
NoCodeMsg == "Error: no code to execute\n"
DecodeFailedMsg == "Error: JSON decode failed\n"

\* traceback.format_exception_only(type(exc), exc)
FormatExceptionOnly(exc) ==
  IF exc.kind = "SyntaxError"
    THEN <<"  File \"<unknown>\", line 1\n", exc.kind \o ": " \o exc.msg \o "\n">>
    ELSE <<exc.kind \o ": " \o exc.msg \o "\n">>
RECURSIVE Join(_, _)
\* sep.join(parts)
Join(sep, parts) ==
  IF parts = <<>> THEN ""
  ELSE IF Len(parts) = 1 THEN parts[1]
  ELSE parts[1] \o sep \o Join(sep, Tail(parts))

\* a handler for another class: `except KeyError`
DecodeCaughtKeyError(exc) == exc.kind = "KeyError"
\* the handler without its `return 1`: main goes on to `return 0`
HandlerFallsThrough(exc) ==
  [text |-> Join("\n", FormatExceptionOnly(exc)), status |-> <<0>>]

\* `except json.decoder.JSONDecodeError`
DecodeCaught(exc) == exc.kind = "JSONDecodeError"
\* `except Exception`
Caught(exc) == exc.kind \notin BaseOnly
\* lines 37-39: what the handler writes and returns
Handler(exc) == [text |-> Join("\n", FormatExceptionOnly(exc)), status |-> <<1>>]
\* ---------------------------------------------------------------- state
VARIABLES
  pc,               \* the stage main is in
  raw_code,         \* main's argument
  code,             \* json.loads(raw_code)
  parsed,           \* a.body as ast.parse returned it
  body,             \* a.body as handed to exec
  last_expression,  \* the echo target
  globals,          \* the namespace
  compiled,         \* exec has compiled the text of body
  ip,               \* the next statement of body exec runs
  stdout,           \* what was printed, each line with who printed it
  stderr,           \* the diagnostics printed
  result,           \* <<>> until main returns, then <<status>>
  raised,           \* the exception raised by a stage, NoExc if none
  failedIn,         \* the stage that failed, "" if none
  execCount,        \* how often exec ran each statement of parsed
  evalCount         \* how often eval ran the echo target

vars == <<pc, raw_code, code, parsed, body, last_expression, globals, compiled, ip, stdout,
          stderr, result, raised, failedIn, execCount, evalCount>>

\* the lines a program is written with
SrcLines ==
  (StmtLines \ {UnparseStmt(For("y")), UnparseExpr(Name("y"))}) \cup {BlankLine, BadLine}
\* the lines the statements before the last are written with
PrefixLines ==
  {"x = 5", "x = None", "x = print(1) or 5", "x: int", "1 / 0", "print(1)", "pass",
   "for y in range(3): pass", "del x", "return", "raise SystemExit", BlankLine,
   BadLine}
Sources ==
  {<<>>} \cup
  {pre \o <<last>> : pre \in UNION {[1..n -> PrefixLines] : n \in 0..(MaxStmts - 1)},
                     last \in SrcLines}
Pad(n) == [i \in 1..n |-> WS]
\* documents that are not a string literal holding a program
OtherDocs ==
  {<<BareWord>>, <<Number>>, <<Quote, "x = 5">>, <<Quote, Quote, BareWord>>,
   <<Quote, Quote>>, <<Quote, "1 + 1", Quote>>}
RawInputs ==
  {NoneRaw} \cup {Raw(Pad(n)) : n \in 0..MaxPad}
  \cup {Raw(Pad(p) \o d \o Pad(q)) : p \in 0..MaxPad, q \in 0..MaxPad, d \in OtherDocs}
  \cup {Raw(<<Quote>> \o src \o <<Quote>>) : src \in Sources}

ByProgram(lines) == [i \in 1..Len(lines) |-> [by |-> "program", s |-> lines[i]]]
ByEcho(line) == [by |-> "echo", s |-> line]

Init ==
  /\ raw_code \in RawInputs
  /\ pc = "Start"
  /\ code = NoCode
  /\ parsed = <<>>
  /\ body = <<>>
  /\ last_expression = NoneStr
  /\ globals = EmptyGlobals
  /\ compiled = FALSE
  /\ ip = 1
  /\ stdout = <<>>
  /\ stderr = <<>>
  /\ result = <<>>
  /\ raised = NoExc
  /\ failedIn = ""
  /\ execCount = <<>>
  /\ evalCount = 0

\* lines 24-26
CheckInput ==
  /\ pc = "Start"
  /\ IF IsBlankInput(raw_code)
       THEN /\ stderr' = Append(stderr, NoCodeMsg)
            /\ result' = <<1>>
            /\ failedIn' = pc
            /\ pc' = "Done"
       ELSE /\ pc' = "Decoding"
            /\ UNCHANGED <<stderr, result, failedIn>>
  /\ UNCHANGED <<raw_code, code, parsed, body, last_expression, globals, compiled, ip, stdout,
                 raised, execCount, evalCount>>

\* the decode handler without its `return 1`: main goes on to exec_code
DecodeNoReturn ==
  /\ pc = "Decoding"
  /\ LET r == JsonLoads(raw_code.s)
     IN  IF r.exc = NoExc
           THEN /\ code' = r.val
                /\ UNCHANGED <<stderr, raised>>
           ELSE /\ raised' = r.exc
                /\ stderr' = Append(stderr, DecodeFailedMsg)
                /\ UNCHANGED code
  /\ pc' = "Splitting"
  /\ UNCHANGED <<raw_code, parsed, body, last_expression, globals, compiled, ip, stdout, result,
                 failedIn, execCount, evalCount>>

\* lines 28-32
Decode ==
  /\ pc = "Decoding"
  /\ LET r == JsonLoads(raw_code.s)
     IN  IF r.exc = NoExc
           THEN /\ code' = r.val
                /\ pc' = "Splitting"
                /\ UNCHANGED <<stderr, result, raised, failedIn>>
           ELSE /\ raised' = r.exc
                /\ failedIn' = pc
                /\ pc' = "Done"
                /\ IF DecodeCaught(r.exc)
                     THEN stderr' = Append(stderr, DecodeFailedMsg) /\ result' = <<1>>
                     ELSE UNCHANGED <<stderr, result>>
                /\ UNCHANGED code
  /\ UNCHANGED <<raw_code, parsed, body, last_expression, globals, compiled, ip, stdout,
                 execCount, evalCount>>

\* lines 34-39: an exception leaves exec_code
Fail(exc) ==
  /\ raised' = exc
  /\ failedIn' = pc
  /\ pc' = "Done"
  /\ IF Caught(exc)
       THEN /\ stderr' = Append(stderr, Handler(exc).text)
            /\ result' = Handler(exc).status
       ELSE UNCHANGED <<stderr, result>>

\* lines 8-16
Split ==
  /\ pc = "Splitting"
  /\ LET a == AstParse(code)
         sp == SplitLast(a.body)
     IN  IF a.exc # NoExc
           THEN /\ Fail(a.exc)
                /\ UNCHANGED <<parsed, body, last_expression, execCount>>
           ELSE /\ parsed' = a.body
                /\ body' = sp.body
                /\ last_expression' = sp.last_expression
                /\ execCount' = [i \in 1..Len(a.body) |-> 0]
                /\ pc' = "Executing"
                /\ UNCHANGED <<stderr, result, raised, failedIn>>
  /\ UNCHANGED <<raw_code, code, globals, compiled, ip, stdout, evalCount>>

\* the text exec compiles, line 17
ExecProgram == ParseBody(AstUnparse(body))

\* line 17: exec compiles the text
ExecCompile ==
  /\ pc = "Executing"
  /\ ~compiled
  /\ IF Compile(ExecProgram) # NoExc
       THEN Fail(Compile(ExecProgram)) /\ UNCHANGED compiled
       ELSE compiled' = TRUE /\ UNCHANGED <<pc, stderr, result, raised, failedIn>>
  /\ UNCHANGED <<raw_code, code, parsed, body, last_expression, globals, ip, stdout,
                 execCount, evalCount>>

\* exec going on with the next statement after one that raised
ExecStmtContinues ==
  /\ pc = "Executing"
  /\ compiled
  /\ ip <= Len(ExecProgram)
  /\ LET r == RunStmt(ExecProgram[ip], globals)
     IN  /\ globals' = r.g
         /\ stdout' = stdout \o ByProgram(r.out)
         /\ execCount' = [execCount EXCEPT ![ip] = @ + 1]
         /\ ip' = ip + 1
         /\ IF r.exc # NoExc
              THEN /\ raised' = r.exc
                   /\ failedIn' = pc
                   /\ stderr' = Append(stderr, Handler(r.exc).text)
                   /\ UNCHANGED <<pc, result>>
              ELSE UNCHANGED <<pc, stderr, result, raised, failedIn>>
  /\ UNCHANGED <<raw_code, code, parsed, body, last_expression, compiled, evalCount>>

\* line 17: exec runs the next statement
ExecStmt ==
  /\ pc = "Executing"
  /\ compiled
  /\ ip <= Len(ExecProgram)
  /\ LET r == RunStmt(ExecProgram[ip], globals)
     IN  /\ globals' = r.g
         /\ stdout' = stdout \o ByProgram(r.out)
         /\ execCount' = [execCount EXCEPT ![ip] = @ + 1]
         /\ IF r.exc # NoExc
              THEN Fail(r.exc) /\ UNCHANGED ip
              ELSE /\ ip' = ip + 1
                   /\ UNCHANGED <<pc, stderr, result, raised, failedIn>>
  /\ UNCHANGED <<raw_code, code, parsed, body, last_expression, compiled, evalCount>>

\* line 17: exec returns
ExecEnd ==
  /\ pc = "Executing"
  /\ compiled
  /\ ip > Len(ExecProgram)
  /\ pc' = "Echoing"
  /\ UNCHANGED <<raw_code, code, parsed, body, last_expression, globals, compiled, ip, stdout,
                 stderr, result, raised, failedIn, execCount, evalCount>>

\* lines 18-21, and line 40
Echo ==
  /\ pc = "Echoing"
  /\ IF Truthy(last_expression)
       THEN LET r == Eval(ParseExpr(last_expression[1]), globals)
            IN  /\ evalCount' = evalCount + 1
                /\ IF r.exc # NoExc
                     THEN /\ Fail(r.exc)
                          /\ stdout' = stdout \o ByProgram(r.out)
                     ELSE /\ stdout' = stdout \o ByProgram(r.out) \o
                               (IF r.val # NoneV THEN <<ByEcho(PrintLine(r.val))>>
                                ELSE <<>>)
                          /\ result' = <<0>>
                          /\ pc' = "Done"
                          /\ UNCHANGED <<stderr, raised, failedIn>>
       ELSE /\ result' = <<0>>
            /\ pc' = "Done"
            /\ UNCHANGED <<stdout, stderr, raised, failedIn, evalCount>>
  /\ UNCHANGED <<raw_code, code, parsed, body, last_expression, globals, compiled, ip,
                 execCount>>

Next == CheckInput \/ Decode \/ Split \/ ExecCompile \/ ExecStmt \/ ExecEnd \/ Echo

Spec == Init /\ [][Next]_vars
\* ---------------------------------------------------------------- properties
Done == pc = "Done"
\* the last statement of the program
Last == parsed[Len(parsed)]
EchoOut == SelectSeq(stdout, LAMBDA o : o.by = "echo")
ProgramOut == SelectSeq(stdout, LAMBDA o : o.by = "program")
\* ast.parse returned
SplitDone ==
  pc \in {"Executing", "Echoing"} \/ (Done /\ failedIn \in {"", "Executing", "Echoing"})
\* exec failed before the last statement: compile rejected the text of the
\* body, or a statement before the last raised
EarlierFailed == failedIn = "Executing" /\ (~compiled \/ ip < Len(parsed))
\* nothing of the program ran
NothingRan ==
  /\ \A i \in 1..Len(execCount) : execCount[i] = 0
  /\ evalCount = 0
  /\ globals = EmptyGlobals
  /\ stdout = <<>>
ExecStages == {"Splitting", "Executing", "Echoing"}
Formatted(exc) == Join("\n", FormatExceptionOnly(exc))

\* C1 as stated: every exception of the Splitter, the Executor or the Echo
\* Evaluator is written to stderr and main returns 1; main returns 0 only when
\* no stage raised; the result of every invocation is 0 or 1.
C1_AnyExceptionReported ==
  Done =>
    /\ result \in {<<0>>, <<1>>}
    /\ failedIn \in ExecStages => result = <<1>> /\ stderr = <<Formatted(raised)>>
    /\ result = <<0>> => raised = NoExc

\* C1 amended: an exception derived from Exception raised by the Splitter, the
\* Executor or the Echo Evaluator is written to stderr, formatted as kind and
\* message, and main returns 1; an exception not derived from Exception
\* (SystemExit) is not caught: nothing is written and main returns no status;
\* main returns 0 only when no stage raised, and what it returns is 0 or 1.
C1_ExceptionReported ==
  Done =>
    /\ result \in {<<>>, <<0>>, <<1>>}
    /\ failedIn \in ExecStages /\ raised.kind # "SystemExit" =>
         /\ result = <<1>>
         /\ stderr = <<Formatted(raised)>>
         /\ raised.kind # "SyntaxError" =>
              stderr[1] = raised.kind \o ": " \o raised.msg \o "\n"
    /\ failedIn \in ExecStages /\ raised.kind = "SystemExit" =>
         result = <<>> /\ stderr = <<>>
    /\ result = <<0>> => raised = NoExc /\ failedIn = ""
    /\ result = <<>> => raised.kind = "SystemExit"

C1_Witness ==
  /\ Done
  /\ failedIn = "Executing"
  /\ raised = ZeroDivisionError
  /\ result = <<1>>
  /\ stderr = <<"ZeroDivisionError: division by zero\n">>

\* the input is None, empty or all whitespace
BlankRaw == raw_code.isNone \/ \A i \in 1..Len(raw_code.s) : raw_code.s[i] = WS

\* C5: for an input that is None, empty or whitespace-only main returns 1, the
\* only diagnostic is "Error: no code to execute", and nothing is decoded,
\* parsed, executed or echoed.
C5_BlankInput ==
  BlankRaw =>
    /\ pc \in {"Start", "Done"}
    /\ code = NoCode /\ parsed = <<>> /\ body = <<>> /\ NothingRan
    /\ Done => result = <<1>> /\ stderr = <<"Error: no code to execute\n">>

C5_Witness ==
  /\ Done
  /\ raw_code = Raw(<<WS, WS>>)
  /\ result = <<1>>
  /\ stderr = <<"Error: no code to execute\n">>

\* the input, whitespace around it aside, is a quote, no further quote, a quote
IsStringLiteral(s) ==
  \E i, j \in 1..Len(s) :
    /\ i < j
    /\ s[i] = Quote /\ s[j] = Quote
    /\ \A k \in 1..Len(s) : (k < i \/ k > j) => s[k] = WS
    /\ \A k \in (i + 1)..(j - 1) : s[k] # Quote
\* the input, whitespace around it aside, is a number
IsNumberLiteral(s) ==
  \E i \in 1..Len(s) : s[i] = Number /\ \A k \in 1..Len(s) : k # i => s[k] = WS

\* C6 as stated: a non-blank input that is not a JSON string literal makes main
\* return 1 with the diagnostic "Error: JSON decode failed", nothing parsed or run.
C6_NotStringLiteral ==
  Done /\ ~BlankRaw /\ ~IsStringLiteral(raw_code.s) =>
    /\ result = <<1>>
    /\ stderr = <<"Error: JSON decode failed\n">>
    /\ parsed = <<>> /\ NothingRan

\* C6 amended: a non-blank input that is no JSON document makes main return 1
\* with the diagnostic "Error: JSON decode failed", nothing parsed or run; a JSON
\* document that is not a string literal (a number) is decoded, fails in
\* ast.parse, and main returns 1 with the TypeError as its diagnostic, nothing run.
C6_DecodeFailed ==
  /\ ~BlankRaw /\ ~IsStringLiteral(raw_code.s) =>
       /\ pc \in {"Start", "Decoding", "Splitting", "Done"}
       /\ parsed = <<>> /\ NothingRan
  /\ Done /\ ~BlankRaw /\ ~IsStringLiteral(raw_code.s) /\ ~IsNumberLiteral(raw_code.s) =>
       /\ result = <<1>>
       /\ stderr = <<"Error: JSON decode failed\n">>
       /\ failedIn = "Decoding" /\ code = NoCode
  /\ Done /\ IsNumberLiteral(raw_code.s) =>
       /\ result = <<1>>
       /\ failedIn = "Splitting"
       /\ stderr = <<"TypeError: compile() arg 1 must be a string, bytes or AST object\n">>

C6_Witness ==
  /\ Done
  /\ raw_code = Raw(<<WS, BareWord>>)
  /\ result = <<1>>
  /\ stderr = <<"Error: JSON decode failed\n">>
\* the statements before the last
Prefix == SubSeq(parsed, 1, Len(parsed) - 1)
\* the statement binds a value to its target
IsValueAssign(s) ==
  s.k \in {"Assign", "AugAssign"} \/ (s.k = "AnnAssign" /\ s.value # NoExpr)
\* how many lines the statements of the program print when each runs once
PrintCount ==
  Cardinality({i \in 1..Len(parsed) : parsed[i].value.k \in {"Print", "PrintOr"}})
\* the program was parsed, has a last statement, and no statement before it failed
ReachedLast == Done /\ SplitDone /\ parsed # <<>> /\ ~EarlierFailed
\* the value bound to the target of the last statement
TargetValue == globals[Last.targets[1]]

\* C2 as stated: a last statement that is an assignment binding a value is
\* executed exactly once, the value bound to its target is the echo line, and
\* main returns 0, whenever no earlier statement fails.
C2_AssignmentEchoed ==
  ReachedLast /\ IsValueAssign(Last) =>
    /\ execCount[Len(parsed)] = 1
    /\ Len(ProgramOut) = PrintCount
    /\ EchoOut = <<ByEcho(PrintLine(TargetValue))>>
    /\ result = <<0>>

\* C2 amended: a last statement that is an assignment binding a value is executed
\* exactly once whenever no earlier statement fails; if it completes, its side
\* effects have occurred once, main returns 0, and the value bound to its target
\* is the echo line unless that value is None, when there is no echo line; if the
\* assignment itself raises there is no echo line and main does not return 0.
C2_AssignmentOnce ==
  ReachedLast /\ IsValueAssign(Last) =>
    /\ execCount[Len(parsed)] = 1
    /\ \A i \in 1..Len(parsed) : execCount[i] = 1
    /\ IF failedIn = "Executing"
         THEN EchoOut = <<>> /\ result # <<0>> /\ evalCount = 0
         ELSE /\ failedIn = "" /\ result = <<0>> /\ stderr = <<>>
              /\ evalCount = 1
              /\ Len(ProgramOut) = PrintCount
              /\ TargetValue # Unbound
              /\ Last.k \in {"Assign", "AnnAssign"} => TargetValue = Last.value.v
              /\ EchoOut = IF TargetValue = NoneV THEN <<>>
                           ELSE <<ByEcho(PrintLine(TargetValue))>>
              /\ Last \in {ParseLine("x = 5"), ParseLine("x: int = 5")} =>
                   EchoOut = <<[by |-> "echo", s |-> "5\n"]>>

C2_Witness ==
  /\ Done
  /\ Len(parsed) = 2
  /\ parsed[1] = ParseLine("x = 5")
  /\ Last = ParseLine("x += print(1) or 5")
  /\ result = <<0>>
  /\ stdout = <<[by |-> "program", s |-> "1\n"], [by |-> "echo", s |-> "10\n"]>>

\* C3 as stated: the body handed to exec leaves out the last statement when it
\* is an expression or a plain assignment, keeps it otherwise, and keeps the
\* statements before it in order.
C3_ExprAndAssignRemoved ==
  SplitDone /\ parsed # <<>> =>
    ExecProgram = IF Last.k \in {"Expr", "Assign"} THEN Prefix ELSE parsed

\* C3 amended: the body handed to exec leaves out the last statement only when
\* it is an expression; a last plain, annotated or augmented assignment, or a
\* statement of any other kind, is kept; the statements before the last are
\* always kept, in order.
C3_OnlyExprRemoved ==
  SplitDone =>
    /\ ExecProgram = body
    /\ parsed = <<>> => body = <<>>
    /\ parsed # <<>> => body = IF Last.k = "Expr" THEN Prefix ELSE parsed

C3_Witness ==
  /\ pc = "Executing"
  /\ Len(parsed) = 3
  /\ Last = ParseLine("x = 5")
  /\ parsed[1] # parsed[2]
  /\ body = parsed

\* C4 as stated: a last statement that is an expression is evaluated exactly
\* once, after the statements before it, an echo line is written iff its value
\* is not None, what evaluating it prints appears, and main returns 0, whenever
\* no earlier statement fails.
C4_ExpressionEchoed ==
  ReachedLast /\ Last.k = "Expr" =>
    /\ evalCount = 1 /\ execCount[Len(parsed)] = 0
    /\ \A i \in 1..(Len(parsed) - 1) : execCount[i] = 1
    /\ Len(ProgramOut) = PrintCount
    /\ Len(EchoOut) = IF Eval(Last.value, globals).val = NoneV THEN 0 ELSE 1
    /\ result = <<0>>

\* C4 amended: a last statement that is an expression is evaluated exactly once,
\* by eval and not by exec, after the statements before it have each run once
\* and in the namespace they left, whenever no earlier statement fails; if the
\* evaluation completes, what it prints appears, the echo line with the value's
\* text is written iff the value is not None, and main returns 0; if the
\* evaluation raises there is no echo line and main does not return 0.
C4_ExpressionOnce ==
  ReachedLast /\ Last.k = "Expr" =>
    /\ evalCount = 1 /\ execCount[Len(parsed)] = 0
    /\ \A i \in 1..(Len(parsed) - 1) : execCount[i] = 1
    /\ IF failedIn = "Echoing"
         THEN EchoOut = <<>> /\ result # <<0>>
         ELSE /\ failedIn = "" /\ result = <<0>> /\ stderr = <<>>
              /\ Len(ProgramOut) = PrintCount
              /\ EchoOut = IF Eval(Last.value, globals).val = NoneV THEN <<>>
                           ELSE <<ByEcho(PrintLine(Eval(Last.value, globals).val))>>
              /\ Last = ParseLine("1 + 1") => EchoOut = <<[by |-> "echo", s |-> "2\n"]>>
              /\ Last = ParseLine("print(1)") =>
                   EchoOut = <<>> /\ stdout[Len(stdout)] = [by |-> "program", s |-> "1\n"]
              /\ Last = ParseLine("x") /\ EchoOut # <<>> =>
                   EchoOut[1].s = PrintLine(globals["x"])

C4_Witness ==
  /\ Done
  /\ Len(parsed) = 2
  /\ parsed[1] = ParseLine("x = print(1) or 5")
  /\ Last = ParseLine("x")
  /\ result = <<0>>
  /\ stdout = <<[by |-> "program", s |-> "1\n"], [by |-> "echo", s |-> "5\n"]>>

\* C7: an empty program, or one whose last statement is neither an expression
\* nor an assignment, has no echo target: nothing is evaluated or echoed, no
\* statement runs twice, and when no statement fails every statement has run
\* exactly once and main returns 0.
C7_NoEchoTarget ==
  SplitDone /\ (parsed = <<>> \/ Last.k \notin {"Expr", "Assign", "AnnAssign", "AugAssign"}) =>
    /\ last_expression = NoneStr
    /\ evalCount = 0 /\ EchoOut = <<>>
    /\ body = parsed
    /\ \A i \in 1..Len(parsed) : execCount[i] <= 1
    /\ Done /\ failedIn = "" =>
         /\ result = <<0>>
         /\ \A i \in 1..Len(parsed) : execCount[i] = 1
    /\ Done /\ failedIn # "" => failedIn = "Executing" /\ result # <<0>>

C7_Witness ==
  /\ Done
  /\ Len(parsed) = 2
  /\ parsed[1] = ParseLine("print(1)")
  /\ Last = For("y")
  /\ result = <<0>>
  /\ globals["y"] = IntV(2)
  /\ stdout = <<[by |-> "program", s |-> "1\n"]>>

\* the statement binds x
BindsX(s) ==
  s.k \in {"Assign", "AugAssign", "AnnAssign", "For"} /\ s.value # NoExpr
  /\ \E i \in 1..Len(s.targets) : s.targets[i] = "x"

\* C10: a last statement `x: T` after statements that do not bind x and do not
\* fail is executed and binds nothing; the echo target x is unbound, so main
\* returns 1 with the NameError as its diagnostic and no echo line.
C10_BareAnnotationFails ==
  (/\ ReachedLast
   /\ Last = AnnAssign("x", NoExpr)
   /\ \A i \in 1..(Len(parsed) - 1) : ~BindsX(parsed[i])) =>
    /\ body = parsed
    /\ \A i \in 1..Len(parsed) : execCount[i] = 1
    /\ globals["x"] = Unbound
    /\ evalCount = 1
    /\ failedIn = "Echoing"
    /\ result = <<1>>
    /\ stderr = <<"NameError: name 'x' is not defined\n">>
    /\ EchoOut = <<>>

C10_Witness ==
  /\ Done
  /\ Len(parsed) = 2
  /\ parsed[1] = ParseLine("print(1)")
  /\ Last = ParseLine("x: int")
  /\ result = <<1>>
  /\ stdout = <<[by |-> "program", s |-> "1\n"]>>
\* C8: an invocation that returns 1 has written exactly one diagnostic, one of
\* the three kinds; an invocation that returns 0 has written none; never two.
C8_OneDiagnostic ==
  /\ Len(stderr) <= 1
  /\ Done /\ result = <<1>> =>
       /\ Len(stderr) = 1
       /\ \/ failedIn = "Start" /\ stderr[1] = "Error: no code to execute\n"
          \/ failedIn = "Decoding" /\ stderr[1] = "Error: JSON decode failed\n"
          \/ failedIn \in ExecStages /\ raised # NoExc /\ stderr[1] = Formatted(raised)
  /\ Done /\ result = <<0>> => stderr = <<>>

C8_Witness ==
  /\ Done
  /\ failedIn = "Echoing"
  /\ result = <<1>>
  /\ stdout # <<>>
  /\ stderr = <<"NameError: name 'x' is not defined\n">>

\* the order of the stages
StageOrder ==
  {<<"Start", "Decoding">>, <<"Decoding", "Splitting">>, <<"Splitting", "Executing">>,
   <<"Executing", "Executing">>, <<"Executing", "Echoing">>, <<"Echoing", "Done">>}

\* one step of an invocation: the next stage in order, or a failure that goes to
\* Done at once; no step after Done; statements run only in Executing, in order
StageStep ==
  /\ pc # "Done"
  /\ <<pc, pc'>> \in StageOrder \/ (pc' = "Done" /\ failedIn' = pc)
  /\ failedIn' # failedIn => pc' = "Done" /\ failedIn' = pc /\ result' # <<0>>
  /\ stderr' # stderr \/ raised' # raised => failedIn' = pc
  /\ result' # result => pc' = "Done"
  /\ pc # "Executing" => globals' = globals /\ ip' = ip /\ compiled' = compiled
  /\ ~compiled /\ ~compiled' /\ pc # "Splitting" =>
       globals' = globals /\ execCount' = execCount /\ stdout' = stdout
  /\ pc \notin {"Splitting", "Executing"} => execCount' = execCount
  /\ pc = "Executing" /\ execCount' # execCount =>
       /\ execCount' = [execCount EXCEPT ![ip] = 1]
       /\ \A i \in 1..Len(execCount) : execCount[i] = (IF i < ip THEN 1 ELSE 0)
       /\ ip' = ip + 1 \/ pc' = "Done"
  /\ pc # "Echoing" => evalCount' = evalCount
  /\ pc \notin {"Executing", "Echoing"} => stdout' = stdout

\* what a failure leaves undone
StageInv ==
  /\ failedIn \in {"Start", "Decoding", "Splitting"} => parsed = <<>> /\ NothingRan
  /\ failedIn = "Executing" =>
       /\ evalCount = 0 /\ EchoOut = <<>>
       /\ \A i \in 1..Len(execCount) :
            execCount[i] = (IF compiled /\ i <= ip THEN 1 ELSE 0)
  /\ failedIn # "" => Done /\ result # <<0>>
  /\ Done /\ failedIn = "" => result = <<0>>
  /\ evalCount <= 1

\* C9: the stages follow one another in the order Start, Decoding, Splitting,
\* Executing, Echoing, Done; a failure in a stage goes to Done at once, with no
\* retry: after a decode or parse failure no statement has run, a failing
\* statement leaves the statements after it and the echo undone, and nothing
\* happens after Done.
C9_Stages == [][StageStep]_vars /\ []StageInv

C9_Witness ==
  /\ Done
  /\ failedIn = "Executing"
  /\ Len(parsed) = 3
  /\ execCount = <<1, 1, 0>>
  /\ Last.k = "Assign"
  /\ result = <<1>>
====
